---- MODULE Spec2Model ----
(***************************************************************************)
(* FUD-buster: the external-API client tools of src/services/Tools.ts      *)
(* (CryptoNewsTool, SocialDataTool, MarketDataTool) and of the second      *)
(* version of that file (PriceTool, TechnicalAnalysisTool), each with its  *)
(* RateLimiter and its timestamped cache, and the server-sent-event relay  *)
(* of POST /api/analyze.                                                   *)
(*                                                                         *)
(* Time is Date.now() in milliseconds.  Every await of the code is a point *)
(* where another call may run, so every action below is one synchronous    *)
(* run of code between two awaits.                                         *)
(***************************************************************************)
EXTENDS Integers, Sequences, FiniteSets, TLC

\* ------------------------------------------------------------------ bounds
MaxCalls == 3          \* Spec: fetch calls started in one behaviour
MaxActive == 2         \* Spec: fetch calls in progress at the same time
MaxTicks == 1          \* Spec: clock advances in one behaviour
RetryCalls == 2        \* SpecRetry: fetch calls started in one behaviour
RetryActive == 1       \* SpecRetry: fetch calls in progress at the same time
RetryTicks == 3        \* SpecRetry: clock advances in one behaviour
StartTime == 1000      \* Date.now() when the first call starts
ShortStep == 50        \* a clock advance shorter than every minInterval
MaxChunks == 3         \* chunks the agent stream yields in one request
MaxSubmits == 2        \* SpecForm: submits of the form, and requests the route handles
MaxEvents == 3         \* SpecForm: events in one response body
MaxRequests == 2       \* SpecWallet: requests of other clients and of the portfolio component
MaxEdits == 1          \* SpecWallet: changes of localStorage from outside the pages
MaxClicks == 2         \* SpecPortfolio: clicks on an asset
MaxStreamEvents == 5   \* SpecPortfolio: events of one analysis response

\* ------------------------------------------------------- program constants
CACHE_DURATION == 5 * 60 * 1000
MAX_RETRIES == 3
RETRY_DELAY == 1000

Tools == {"news", "social", "market", "price", "technical"}
Queries == {"btc", "BTC"}
Filters == {"bearish", "bullish"}
Payloads == {"p1", "p2"}
CallIds == 1..(IF MaxActive > RetryActive THEN MaxActive ELSE RetryActive)

NoTime == -1
NoData == "none"
NoKey == <<"none", "none">>

\* String.prototype.toLowerCase on the queries of the model
toLowerCase(q) == IF q = "BTC" THEN "btc" ELSE q

\* the cache key of each tool: the lower-cased query and a fixed suffix
getCacheKey(t, q, f) ==
    CASE t = "news"      -> <<toLowerCase(q), f>>
      [] t = "social"    -> <<"twitter", toLowerCase(q)>>
      [] t = "market"    -> <<toLowerCase(q), "analysis">>
      [] t = "price"     -> <<toLowerCase(q), "price">>
      [] t = "technical" -> <<toLowerCase(q), "indicators">>

\* new RateLimiter(requestsPerSecond) in each tool's constructor
requestsPerSecond(t) == IF t = "news" THEN 5 ELSE 10

\* the RateLimiter instance a tool uses: each constructor makes its own
LimiterOfShared(t) == "news"
LimiterOf(t) == t

minInterval(l) == 1000 \div requestsPerSecond(l)

\* only the news and the social tool have fetchWithRetry
HasRetryNone(t) == FALSE
HasRetry(t) == t \in {"news", "social"}

\* MarketDataTool.analyze starts getMarketData and getCurrentPrice together
RequestsPerAttempt(t) == IF t = "market" THEN 2 ELSE 1

\* ------------------------------------------------------------------- state
VARIABLES
    limits,        \* the bounds of the behaviour: calls, active calls, clock advances,
                   \*          and whether the attempts of a call are recorded
    now,           \* Date.now()
    ticks,         \* number of clock advances so far
    cache,         \* cache[t]: the Map of tool t, key -> [timestamp, data]
    lastCallTime,  \* lastCallTime[l] of RateLimiter instance l
    calls,         \* calls[c]: the fetch call in progress in slot c
    started,       \* number of fetch calls started so far
    ret,           \* history: the fetch call that returned last
    limGap,        \* history: the last waitForNext to complete, and the time
                   \*          since the completion before it on that limiter
    sendLast,      \* history: time of the last upstream request of tool t
    sendGap,       \* history: the last upstream request, and the time since
                   \*          the request before it of that tool
    lastStore,     \* history: lastStore[t]: key -> the last cache.set for it
    rpc,           \* relay: position of the background relay
    chunks,        \* relay: chunks taken from the agent stream, in order
    events,        \* relay: SSE events accepted by the response, in order
    writer,        \* relay: state of the response writer
    closedAt,      \* relay history: Len(events) when writer.close() ran
    threwAt,       \* relay history: Len(events) when the agent stream threw
    form,          \* SearchForm: the component's state and handleSubmit's position
    post,          \* POST /api/analyze: the request in flight and its answer
    body,          \* the response body as the form's reader receives it
    localStorage,  \* wallet pages: the keys 'walletId' and 'addresses'
    client,        \* wallet pages: the page shown and the handler in progress
    api,           \* wallet routes: the request in flight and the last answer
    used,          \* wallet pages: requests of other clients and edits so far
    tcall,         \* the _call of a tool in progress, and its result
    portfolio      \* Portfolio: the analysis of a clicked asset and its steps

toolVars == <<limits, now, ticks, cache, lastCallTime, calls, started, ret, limGap,
              sendLast, sendGap, lastStore>>
relayVars == <<rpc, chunks, events, writer, closedAt, threwAt>>
vars == <<limits, now, ticks, cache, lastCallTime, calls, started, ret, limGap,
          sendLast, sendGap, lastStore,
          rpc, chunks, events, writer, closedAt, threwAt,
          form, post, body, localStorage, client, api, used, tcall, portfolio>>
formVars == <<form, post, body>>
walletVars == <<localStorage, client, api, used>>
callVars == <<tcall>>
portfolioVars == <<portfolio>>
appVars == <<formVars, walletVars, callVars, portfolioVars>>

\* --------------------------------------------------------------- the cache
EmptyMap == [k \in {} |-> NoData]

Entry(ts, d) == [timestamp |-> ts, data |-> d]

isCacheValidInclusive(cacheEntry, t) == t - cacheEntry.timestamp <= CACHE_DURATION
isCacheValidSeconds(cacheEntry, t) == t - cacheEntry.timestamp < 5 * 60
isCacheValid(cacheEntry, t) == t - cacheEntry.timestamp < CACHE_DURATION

\* cachedData && isCacheValid(cachedData)
CacheHit(c, k, t) == k \in DOMAIN c /\ isCacheValid(c[k], t)

\* this.cache.set(cacheKey, {timestamp, data})
CacheSetOnly(c, k, e) == [kk \in {k} |-> e]
CacheSet(c, k, e) == [kk \in DOMAIN c \cup {k} |-> IF kk = k THEN e ELSE c[kk]]

\* ------------------------------------------------------------- RateLimiter
\* the synchronous part of waitForNext: the time to wait, 0 for none
waitTime(l, t) ==
    LET timeSinceLastCall == t - lastCallTime[l]
    IN  IF timeSinceLastCall < minInterval(l)
        THEN minInterval(l) - timeSinceLastCall
        ELSE 0

\* this.lastCallTime = Date.now()
LimiterDone(l) ==
    /\ lastCallTime' = [lastCallTime EXCEPT ![l] = now]
    /\ limGap' = [limiter |-> l, gap |-> now - lastCallTime[l]]

\* fetch(url): n requests of tool t leave at the current time
Send(t, n) ==
    /\ sendLast' = [sendLast EXCEPT ![t] = now]
    /\ sendGap' = [tool |-> t,
                   gap |-> IF n > 1 THEN 0
                           ELSE IF sendLast[t] = NoTime THEN NoTime
                           ELSE now - sendLast[t]]

\* ------------------------------------------------------------------- calls
IdleCall == [tool |-> "none", key |-> NoKey, pc |-> "idle", wake |-> NoTime,
             retryCount |-> 0, pending |-> 0, sent |-> 0, sendTime |-> NoTime,
             delays |-> <<>>, attempts |-> <<>>, outcome |-> "none", took |-> NoTime,
             result |-> "none", data |-> NoData,
             hitAge |-> NoTime, fresh |-> FALSE, storeData |-> NoData]

\* a call may start in slot c: the lowest free slot is taken
CanStart(c) ==
    /\ started < limits.calls
    /\ c <= limits.active
    /\ calls[c].pc = "idle"
    /\ \A b \in CallIds : b < c => calls[b].pc # "idle"

\* the call of slot c returns r to its caller (or throws, result "fail")
Return(c, r) ==
    /\ ret' = [r EXCEPT !.pc = "done", !.pending = 0, !.wake = NoTime,
                        !.sendTime = NoTime,
                        !.took = IF r.sendTime = NoTime THEN NoTime ELSE now - r.sendTime]
    /\ calls' = [calls EXCEPT ![c] = IdleCall]

\* The start of fetchNewsWithFilter, fetchTwitterData, analyze, fetchPrice and
\* fetchTechnicalIndicators up to the first await that yields: the cache
\* lookup, and on a miss the synchronous part of waitForNext and, when no
\* wait is due, the fetch.
StartFetch(c, t, k) ==
    LET l == LimiterOf(t)
        \* history: was a result stored for k less than 5 minutes ago, and which
        base == [IdleCall EXCEPT !.tool = t, !.key = k,
                    !.fresh = /\ k \in DOMAIN lastStore[t]
                              /\ now - lastStore[t][k].timestamp < 5 * 60 * 1000,
                    !.storeData = IF k \in DOMAIN lastStore[t]
                                  THEN lastStore[t][k].data ELSE NoData]
    IN
    /\ CanStart(c)
    /\ started' = started + 1
    /\ UNCHANGED <<limits, now, ticks, cache, lastStore, relayVars, appVars>>
    /\ IF CacheHit(cache[t], k, now)
       THEN /\ Return(c, [base EXCEPT !.result = "hit",
                                      !.data = cache[t][k].data,
                                      !.hitAge = now - cache[t][k].timestamp])
            /\ UNCHANGED <<lastCallTime, limGap, sendLast, sendGap>>
       ELSE IF waitTime(l, now) > 0
       THEN /\ calls' = [calls EXCEPT ![c] =
                    [base EXCEPT !.pc = "waitForNext",
                                 !.wake = now + waitTime(l, now)]]
            /\ UNCHANGED <<ret, lastCallTime, limGap, sendLast, sendGap>>
       ELSE /\ calls' = [calls EXCEPT ![c] =
                    [base EXCEPT !.pc = "fetch", !.sendTime = now,
                                 !.pending = RequestsPerAttempt(t),
                                 !.sent = RequestsPerAttempt(t)]]
            /\ LimiterDone(l)
            /\ Send(t, RequestsPerAttempt(t))
            /\ UNCHANGED ret

fetchNewsWithFilter(c) ==
    \E q \in Queries, f \in Filters : StartFetch(c, "news", getCacheKey("news", q, f))

fetchTwitterData(c) ==
    \E q \in Queries : StartFetch(c, "social", getCacheKey("social", q, "none"))

analyze(c) ==
    \E q \in Queries : StartFetch(c, "market", getCacheKey("market", q, "none"))

fetchPrice(c) ==
    \E q \in Queries : StartFetch(c, "price", getCacheKey("price", q, "none"))

fetchTechnicalIndicators(c) ==
    \E q \in Queries : StartFetch(c, "technical", getCacheKey("technical", q, "none"))

\* the setTimeout of waitForNext has fired: lastCallTime is set and the
\* caller goes on to its fetch
waitForNext(c) ==
    LET t == calls[c].tool IN
    /\ calls[c].pc = "waitForNext"
    /\ now >= calls[c].wake
    /\ calls' = [calls EXCEPT ![c].pc = "fetch", ![c].wake = NoTime,
                              ![c].sendTime = now,
                              ![c].pending = RequestsPerAttempt(t),
                              ![c].sent = RequestsPerAttempt(t)]
    /\ LimiterDone(LimiterOf(t))
    /\ Send(t, RequestsPerAttempt(t))
    /\ UNCHANGED <<limits, now, ticks, cache, lastStore, started, ret, relayVars, appVars>>

\* history: the outcomes of the attempts of a call, in order; kept only in
\* the specification that follows the retries
Attempted(attempts, outcome) == IF limits.history THEN Append(attempts, outcome) ELSE attempts

\* fetchWithRetry: the delay before the retry that follows attempt retryCount
retryDelayConstant(retryCount) == RETRY_DELAY
retryDelay(retryCount) == RETRY_DELAY * 2^retryCount

\* fetchWithRetry: both branches retry while retryCount < MAX_RETRIES, the
\* try block after a response that is not ok, the catch block after a throw
shouldRetryOnThrowOnly(outcome, retryCount) == outcome = "throw" /\ retryCount < MAX_RETRIES
shouldRetry(outcome, retryCount) == outcome \in {"notok", "throw"} /\ retryCount < MAX_RETRIES

\* the call ends without a result: {results: []}, null or an exception
FailStoresEmpty(c, outcome) ==
    /\ Return(c, [calls[c] EXCEPT !.result = "fail", !.outcome = outcome,
                                  !.attempts = Attempted(@, outcome)])
    /\ cache' = [cache EXCEPT ![calls[c].tool] = CacheSet(@, calls[c].key, Entry(now, NoData))]
    /\ UNCHANGED lastStore
Fail(c, outcome) ==
    /\ Return(c, [calls[c] EXCEPT !.result = "fail", !.outcome = outcome,
                                  !.attempts = Attempted(@, outcome)])
    /\ UNCHANGED <<cache, lastStore>>

\* A response arrives for a request of call c.  outcome: "ok" a usable 2xx
\* response, "notok" a response with ok = false, "throw" fetch rejects,
\* "badbody" a 2xx response the tool cannot use (wrong content type, json()
\* fails, unexpected shape).
fetchResponse(c, outcome, d) ==
    LET t == calls[c].tool
        k == calls[c].key
    IN
    /\ calls[c].pc = "fetch"
    /\ UNCHANGED <<limits, now, ticks, started, lastCallTime, limGap, sendLast, sendGap, relayVars, appVars>>
    /\ IF HasRetry(t) /\ shouldRetry(outcome, calls[c].retryCount)
       THEN \* fetchWithRetry: setTimeout(RETRY_DELAY * 2^retryCount), then recurse
            /\ calls' = [calls EXCEPT ![c].pc = "backoff",
                            ![c].wake = now + retryDelay(calls[c].retryCount),
                            ![c].retryCount = @ + 1,
                            ![c].delays = Append(@, retryDelay(calls[c].retryCount)),
                            ![c].attempts = Attempted(@, outcome),
                            ![c].pending = 0]
            /\ UNCHANGED <<cache, lastStore, ret>>
       ELSE IF outcome # "ok"
       THEN Fail(c, outcome)
       ELSE IF calls[c].pending > 1
       THEN \* Promise.all of analyze: the other request is still out
            /\ calls' = [calls EXCEPT ![c].pending = @ - 1, ![c].attempts = Attempted(@, outcome)]
            /\ UNCHANGED <<cache, lastStore, ret>>
       ELSE /\ cache' = [cache EXCEPT ![t] = CacheSet(@, k, Entry(now, d))]
            /\ lastStore' = [lastStore EXCEPT ![t] =
                    [kk \in DOMAIN @ \cup {k} |-> IF kk = k THEN Entry(now, d) ELSE @[kk]]]
            /\ Return(c, [calls[c] EXCEPT !.result = "ok", !.data = d, !.outcome = "ok",
                                          !.attempts = Attempted(@, outcome)])

\* the backoff timer of fetchWithRetry has fired: the next attempt leaves,
\* without passing the rate limiter
fetchWithRetry(c) ==
    LET t == calls[c].tool IN
    /\ calls[c].pc = "backoff"
    /\ now >= calls[c].wake
    /\ calls' = [calls EXCEPT ![c].pc = "fetch", ![c].wake = NoTime,
                              ![c].pending = 1, ![c].sent = @ + 1]
    /\ Send(t, 1)
    /\ UNCHANGED <<limits, now, ticks, cache, lastCallTime, limGap, lastStore, started, ret, relayVars, appVars>>

\* ------------------------------------------------------------------- clock
PendingWakes == {calls[c].wake : c \in {b \in CallIds : calls[b].pc \in {"waitForNext", "backoff"}}}

\* Date.now() advances: by a short step, by a step that ends just before a
\* cache expiry or exactly at it, or to the time a pending setTimeout is due
TickTargets ==
    {now + ShortStep, now + CACHE_DURATION - ShortStep, now + CACHE_DURATION}
        \cup {w \in PendingWakes : w > now}

Tick ==
    /\ ticks < limits.ticks
    /\ \E t \in TickTargets : now' = t
    /\ ticks' = ticks + 1
    /\ UNCHANGED <<limits, cache, lastCallTime, calls, started, ret, limGap, sendLast, sendGap,
                   lastStore, relayVars, appVars>>

\* ---------------------------------------------- the relay of POST /api/analyze
\* The chunks of fudAgent.stream(): an agent message with array content, an
\* agent message with string content, a tools message, and a chunk with
\* neither key.
ChunkKinds == {"agent_steps", "agent_final", "tools", "other"}

\* "agent" in chunk / "tools" in chunk: the chunk is written to the response
ForwardsAgentOnly(kind) == kind \in {"agent_steps", "agent_final"}
Forwards(kind) == kind \in {"agent_steps", "agent_final", "tools"}

\* the type field of the event written for a chunk
EventType(kind) == IF kind = "tools" THEN "tools" ELSE "agent"

\* the event of the i-th chunk; chunk is a history tag naming its origin
EventOf(i) == [type |-> EventType(chunks[i]), chunk |-> i]

\* the event of the catch block
errorMessageAsAgent(evs) == Append(evs, [type |-> "agent", chunk |-> 0])
errorMessage(evs) == Append(evs, [type |-> "error", chunk |-> 0])

RelayFrame == UNCHANGED <<toolVars, appVars>>

\* for await: the agent stream yields a chunk; a chunk with an agent or a
\* tools key goes to writer.write, any other is skipped
AgentYield ==
    /\ rpc = "stream"
    /\ Len(chunks) < MaxChunks
    /\ \E kind \in ChunkKinds :
            /\ chunks' = Append(chunks, kind)
            /\ rpc' = IF Forwards(kind) THEN "write" ELSE "stream"
    /\ UNCHANGED <<events, writer, closedAt, threwAt>>
    /\ RelayFrame

\* await writer.write(...) of the loop: the response takes the event, or the
\* write rejects because the stream is errored and the catch block runs
Write ==
    /\ rpc = "write"
    /\ IF writer = "writable"
       THEN /\ events' = Append(events, EventOf(Len(chunks)))
            /\ rpc' = "stream"
       ELSE /\ rpc' = "catch_write"
            /\ UNCHANGED events
    /\ UNCHANGED <<chunks, writer, closedAt, threwAt>>
    /\ RelayFrame

\* the agent stream ends: the loop is left
AgentEnd ==
    /\ rpc = "stream"
    /\ rpc' = "close"
    /\ UNCHANGED <<chunks, events, writer, closedAt, threwAt>>
    /\ RelayFrame

\* fudAgent.stream() or the iteration throws: the catch block runs
AgentThrow ==
    /\ rpc = "stream"
    /\ rpc' = "catch_write"
    /\ threwAt' = Len(events)
    /\ UNCHANGED <<chunks, events, writer, closedAt>>
    /\ RelayFrame

\* await writer.close() at the end of the try block
Close ==
    /\ rpc = "close"
    /\ IF writer = "writable"
       THEN /\ writer' = "closed"
            /\ closedAt' = Len(events)
            /\ rpc' = "done"
       ELSE /\ rpc' = "catch_write"
            /\ UNCHANGED <<writer, closedAt>>
    /\ UNCHANGED <<chunks, events, threwAt>>
    /\ RelayFrame

\* catch: await writer.write(errorMessage); a rejection leaves the async
\* function, and writer.close() is not reached
CatchWrite ==
    /\ rpc = "catch_write"
    /\ IF writer = "writable"
       THEN /\ events' = errorMessage(events)
            /\ rpc' = "catch_close"
       ELSE /\ rpc' = "crashed"
            /\ UNCHANGED events
    /\ UNCHANGED <<chunks, writer, closedAt, threwAt>>
    /\ RelayFrame

\* catch: await writer.close()
CatchClose ==
    /\ rpc = "catch_close"
    /\ IF writer = "writable"
       THEN /\ writer' = "closed"
            /\ closedAt' = Len(events)
            /\ rpc' = "done"
       ELSE /\ rpc' = "crashed"
            /\ UNCHANGED <<writer, closedAt>>
    /\ UNCHANGED <<chunks, events, threwAt>>
    /\ RelayFrame

\* the browser drops the connection: the readable side is cancelled, which
\* errors the writable side, so every later write and close rejects
ClientCancel ==
    /\ writer = "writable"
    /\ rpc \notin {"done", "crashed"}
    /\ writer' = "errored"
    /\ UNCHANGED <<rpc, chunks, events, closedAt, threwAt>>
    /\ RelayFrame

\* ------------------------------------------- SearchForm and POST /api/analyze
\* SearchForm.handleSubmit posts the coin name and reads the event stream of
\* the answer; POST is the head of the route handler, up to its first return.

\* values of the input field, and of the coinName member of a request body
\* ("missing": the body has no coinName; "malformed": the body is not JSON)
CoinNames == {"", " ", "btc"}
Bodies == CoinNames \cup {"missing", "malformed"}

EventTypes == {"agent", "tools", "error"}
NoEvent == [type |-> "none", n |-> 0]
NoRequest == "no request"

\* String.prototype.trim on the values of the input field
trimNone(s) == s
trim(s) == IF s = " " THEN "" ELSE s

\* !coinName of JavaScript: undefined and the empty string are falsy
IsFalsy(v) == v \in {"missing", ""}

\* the updater given to setResults for one parsed event
setResults(prev, data) ==
    IF data.type = "agent" THEN [prev EXCEPT !.agent = Append(@, data)]
    ELSE IF data.type = "tools" THEN [prev EXCEPT !.tools = Append(@, data)]
    ELSE prev

\* one line of a chunk.  A whole "data: ..." line parses; the head of a line
\* cut by the end of the chunk starts with "data: " but JSON.parse throws and
\* the catch only logs; the tail of a cut line does not start with "data: ".
handleLine(prev, piece) ==
    IF piece.kind = "whole" THEN setResults(prev, piece.ev) ELSE prev

RECURSIVE handleLines(_, _)
handleLines(prev, pieces) ==
    IF pieces = <<>> THEN prev
    ELSE handleLines(handleLine(prev, Head(pieces)), Tail(pieces))

\* the events whose last byte arrives with a chunk
RECURSIVE Arrived(_)
Arrived(pieces) ==
    IF pieces = <<>> THEN <<>>
    ELSE IF Head(pieces).kind \in {"whole", "tail"} THEN <<Head(pieces).ev>> \o Arrived(Tail(pieces))
    ELSE Arrived(Tail(pieces))

Piece(kind, t, k) == [kind |-> kind, ev |-> [type |-> t, n |-> Len(body.received) + k]]

\* what one reader.read() can deliver: the stream is a stream of bytes, so a
\* chunk holds one event, several events, or ends in the middle of an event
ReadChunks ==
    IF body.partial # NoEvent
    THEN {<<[kind |-> "tail", ev |-> body.partial]>>}
    ELSE {<<Piece("whole", t, 1)>> : t \in EventTypes}
         \cup {<<Piece("whole", t, 1), Piece("whole", u, 2)>> : t \in EventTypes, u \in EventTypes}
         \cup {<<Piece("head", t, 1)>> : t \in EventTypes}

IdleForm == [coinName |-> "", isLoading |-> FALSE, error |-> "", agent |-> <<>>, tools |-> <<>>,
             pc |-> "idle", submits |-> 0, lastSubmit |-> [coinName |-> "", sent |-> FALSE]]
IdlePost == [req |-> NoRequest, status |-> 0, error |-> "", handled |-> 0,
             agentCalls |-> 0, streams |-> 0,
             last |-> [coinName |-> NoRequest, status |-> 0, error |-> "", agent |-> FALSE, stream |-> FALSE]]
IdleBody == [received |-> <<>>, partial |-> NoEvent]

FormFrame == UNCHANGED <<toolVars, relayVars, walletVars, callVars, portfolioVars>>

\* onChange of the input, which is disabled while isLoading
setCoinName(v) ==
    /\ ~form.isLoading
    /\ form.coinName # v
    /\ form' = [form EXCEPT !.coinName = v]
    /\ UNCHANGED <<post, body>>
    /\ FormFrame

\* lines 30-45: up to the await of fetch
handleSubmit ==
    /\ form.pc = "idle"
    /\ form.submits < MaxSubmits
    /\ IF trim(form.coinName) = ""
       THEN /\ form' = [form EXCEPT !.submits = @ + 1,
                                    !.lastSubmit = [coinName |-> form.coinName, sent |-> FALSE]]
            /\ UNCHANGED <<post, body>>
       ELSE /\ form' = [form EXCEPT !.submits = @ + 1, !.isLoading = TRUE, !.error = "",
                                    !.agent = <<>>, !.tools = <<>>, !.pc = "fetch",
                                    !.lastSubmit = [coinName |-> form.coinName, sent |-> TRUE]]
            /\ post' = [post EXCEPT !.req = form.coinName, !.status = 0, !.error = ""]
            /\ body' = IdleBody
    /\ FormFrame

\* a client other than the form posts to the route
OtherClient(b) ==
    /\ form.pc = "idle"
    /\ post.req = NoRequest
    /\ post.handled < MaxSubmits
    /\ post' = [post EXCEPT !.req = b, !.status = 0, !.error = ""]
    /\ UNCHANGED <<form, body>>
    /\ FormFrame

\* route.ts: the handler up to the response it returns
POST ==
    /\ post.req # NoRequest
    /\ LET answer(st, err, ag, str) ==
               [post EXCEPT !.req = NoRequest, !.status = st, !.error = err,
                            !.handled = @ + 1,
                            !.agentCalls = @ + (IF ag THEN 1 ELSE 0),
                            !.streams = @ + (IF str THEN 1 ELSE 0),
                            !.last = [coinName |-> post.req, status |-> st, error |-> err,
                                      agent |-> ag, stream |-> str]]
       IN post' = IF post.req = "malformed"
                  THEN answer(500, "Failed to analyze cryptocurrency", FALSE, FALSE)
                  ELSE IF IsFalsy(post.req)
                  THEN answer(400, "Coin name is required", FALSE, FALSE)
                  ELSE answer(200, "", TRUE, TRUE)
    /\ UNCHANGED <<form, body>>
    /\ FormFrame

\* lines 84-88: catch and finally
Failed(f) == [f EXCEPT !.error = "Failed to analyze. Please try again.", !.isLoading = FALSE, !.pc = "idle"]

\* lines 39-50: the fetch resolves with the answer of the route
FetchResolve ==
    /\ form.pc = "fetch"
    /\ post.req = NoRequest
    /\ post.status # 0
    /\ form' = IF post.status = 200 THEN [form EXCEPT !.pc = "read"] ELSE Failed(form)
    /\ UNCHANGED <<post, body>>
    /\ FormFrame

\* the fetch rejects: the network failed
FetchReject ==
    /\ form.pc = "fetch"
    /\ form' = Failed(form)
    /\ post' = [post EXCEPT !.req = NoRequest]
    /\ UNCHANGED body
    /\ FormFrame

\* lines 53-83: one round of the read loop with done = false
Read(pieces) ==
    /\ form.pc = "read"
    /\ Len(body.received) + Len(pieces) <= MaxEvents
    /\ form' = handleLines(form, pieces)
    /\ body' = [received |-> body.received \o Arrived(pieces),
                partial |-> IF pieces[Len(pieces)].kind = "head" THEN pieces[Len(pieces)].ev ELSE NoEvent]
    /\ UNCHANGED post
    /\ FormFrame

\* lines 54-55 and the finally: the stream ended
ReadDone ==
    /\ form.pc = "read"
    /\ body.partial = NoEvent
    /\ form' = [form EXCEPT !.isLoading = FALSE, !.pc = "idle"]
    /\ UNCHANGED <<post, body>>
    /\ FormFrame

\* reader.read() rejects: the connection broke
ReadReject ==
    /\ form.pc = "read"
    /\ form' = Failed(form)
    /\ UNCHANGED <<post, body>>
    /\ FormFrame

\* ------------------------------------- the wallet pages and the wallet routes
\* Home (create, import), the portfolio page (checkWallet), Header
\* (disconnect) and the routes POST /api/wallet, GET /api/wallet/verify and
\* GET /api/portfolio.  localStorage belongs to the origin: other tabs and
\* the user can change it, which is what checkWallet guards against.

Absent == "absent"            \* localStorage.getItem gives null for the key
AddressList == <<"a1">>       \* the addresses the SDK lists for a wallet
Mnemonics == {"", " ", "words"}
Currencies == {"eth", "usdc"}
Amounts == {0, 1, 150}        \* balances, in hundredths of a coin
SdkOutcomes == {"ok", "walletThrows", "listThrows"}

\* JSON.stringify of an array, and the texts JSON.parse can meet
stringify(v) == [json |-> "array", value |-> v]
StoredTexts == {stringify(AddressList), [json |-> "object", value |-> <<>>],
                [json |-> "invalid", value |-> <<>>]}
AbsentText == [json |-> "absent", value |-> <<>>]
parseThrows(text) == text.json = "invalid"
isArray(text) == text.json = "array"

\* the BalanceMap of a wallet: currency -> balance, in insertion order
BalanceMaps ==
    {<<>>} \cup {<<[currency |-> c, balance |-> b]>> : c \in Currencies, b \in Amounts}
    \cup {<<[currency |-> "eth", balance |-> b1], [currency |-> "usdc", balance |-> b2]>> :
              b1 \in Amounts, b2 \in Amounts}

\* Decimal.toString and parseFloat, on hundredths: <<whole part, hundredths>>
toString(b) == <<b \div 100, b % 100>>
parseFloat(s) == s[1] * 100 + s[2]

\* portfolio route, line 25
isNonZeroInclusive(balance) == parseFloat(toString(balance)) >= 0
isNonZero(balance) == parseFloat(toString(balance)) > 0

\* portfolio route, lines 22-34
RECURSIVE assetsOf(_, _)
assetsOf(walletId, balances) ==
    IF balances = <<>> THEN <<>>
    ELSE LET h == Head(balances)
             rest == assetsOf(walletId, Tail(balances))
         IN IF isNonZero(h.balance)
            THEN <<[id |-> <<walletId, h.currency>>, coin |-> h.currency,
                    amount |-> parseFloat(toString(h.balance))]>> \o rest
            ELSE rest

NoReq == [route |-> "none", action |-> "missing", mnemonicPhrase |-> "missing", walletId |-> "missing"]
WalletReq(a, m) == [route |-> "POST /api/wallet", action |-> a, mnemonicPhrase |-> m, walletId |-> "missing"]
VerifyReq(w) == [route |-> "GET /api/wallet/verify", action |-> "missing", mnemonicPhrase |-> "missing", walletId |-> w]
PortfolioReq(w) == [route |-> "GET /api/portfolio", action |-> "missing", mnemonicPhrase |-> "missing", walletId |-> w]

\* what any client of the three routes can send
OtherRequests ==
    {WalletReq("create", "missing"), WalletReq("delete", "missing"),
     WalletReq("missing", "missing"), WalletReq("malformed", "missing")}
    \cup {WalletReq("import", m) : m \in {"missing", "", "words"}}
    \cup {VerifyReq(w) : w \in {"missing", "", "w1"}}
    \cup {PortfolioReq(w) : w \in {"missing", "", "w1"}}

NoRes == [status |-> 0, success |-> FALSE, error |-> "", wallet |-> "", addresses |-> <<>>, assets |-> <<>>]
ErrorRes(st, err) == [NoRes EXCEPT !.status = st, !.error = err]
Answer(res, sdkCalls) == [res |-> res, calls |-> sdkCalls]

\* the SDK calls of a handler that makes two of them, and its answer when the
\* SDK throws
sdkCalls(first, second, sdk) == IF sdk = "walletThrows" THEN <<first>> ELSE <<first, second>>

\* POST /api/wallet, lines 13-20 and 30-39: the SDK calls of create and import
walletCreated(r, sdk) ==
    Answer(IF sdk = "ok"
           THEN [NoRes EXCEPT !.status = 200, !.success = TRUE, !.wallet = "w1", !.addresses = AddressList]
           ELSE ErrorRes(500, "Failed to perform wallet operation"),
           sdkCalls(IF r.action = "create" THEN "Wallet.create" ELSE "Wallet.import", "listAddresses", sdk))

\* POST /api/wallet
walletPOSTNoCheck(r, sdk) ==
    IF r.action = "malformed"
    THEN Answer(ErrorRes(500, "Failed to perform wallet operation"), <<>>)
    ELSE IF r.action \in {"create", "import"}
    THEN walletCreated(r, sdk)
    ELSE Answer(ErrorRes(400, "Invalid action"), <<>>)
walletPOST(r, sdk) ==
    IF r.action = "malformed"
    THEN Answer(ErrorRes(500, "Failed to perform wallet operation"), <<>>)
    ELSE IF r.action = "import" /\ IsFalsy(r.mnemonicPhrase)
    THEN Answer(ErrorRes(400, "Mnemonic phrase is required"), <<>>)
    ELSE IF r.action \in {"create", "import"}
    THEN walletCreated(r, sdk)
    ELSE Answer(ErrorRes(400, "Invalid action"), <<>>)

\* GET /api/wallet/verify
verifyGET(r, sdk) ==
    IF IsFalsy(r.walletId)
    THEN Answer(ErrorRes(400, "Wallet ID is required"), <<>>)
    ELSE Answer(IF sdk = "ok"
                THEN [NoRes EXCEPT !.status = 200, !.success = TRUE, !.addresses = AddressList]
                ELSE ErrorRes(401, "Invalid wallet"),
                sdkCalls("Wallet.fetch", "listAddresses", sdk))

\* GET /api/portfolio
portfolioGET(r, sdk, balances) ==
    IF IsFalsy(r.walletId)
    THEN Answer(ErrorRes(400, "Wallet ID is required"), <<>>)
    ELSE Answer(IF sdk = "ok"
                THEN [NoRes EXCEPT !.status = 200, !.assets = assetsOf(r.walletId, balances)]
                ELSE ErrorRes(500, "Failed to fetch portfolio"),
                sdkCalls("Wallet.fetch", "listBalances", sdk))

NoWallet == [walletId |-> Absent, addresses |-> <<>>]
EmptyStorage == [walletId |-> Absent, addresses |-> AbsentText]
StorageStates == [walletId : {Absent, "w1"}, addresses : {AbsentText} \cup StoredTexts]

\* localStorage.setItem of both keys, and removeItem of both keys
setItems(w, addrs) == [walletId |-> w, addresses |-> stringify(addrs)]
removeWalletIdOnly(ls) == [ls EXCEPT !.walletId = Absent]
removeItems(ls) == EmptyStorage

IdleClient == [pc |-> "homeMount", walletInfo |-> NoWallet, read |-> NoWallet, toast |-> ""]
IdleApi == [req |-> NoReq, last |-> NoReq, res |-> NoRes, calls |-> <<>>, sdk |-> "ok", balances |-> <<>>]

WalletFrame == UNCHANGED <<toolVars, relayVars, formVars, callVars, portfolioVars>>

\* app/page.tsx, lines 19-24: the effect of Home on mount
HomeMount ==
    /\ client.pc = "homeMount"
    /\ client' = [client EXCEPT !.pc = IF localStorage.walletId # Absent THEN "mount" ELSE "home"]
    /\ UNCHANGED <<localStorage, api, used>>
    /\ WalletFrame

\* app/page.tsx, lines 26-33: up to the await of fetch
handleCreateWallet ==
    /\ client.pc = "home"
    /\ api.req = NoReq
    /\ client' = [client EXCEPT !.pc = "creating"]
    /\ api' = [api EXCEPT !.req = WalletReq("create", "missing")]
    /\ UNCHANGED <<localStorage, used>>
    /\ WalletFrame

\* app/page.tsx, lines 54-69
handleImportWallet(m) ==
    /\ client.pc = "home"
    /\ api.req = NoReq
    /\ IF trim(m) = ""
       THEN /\ client.toast # "Please enter your recovery phrase"
            /\ client' = [client EXCEPT !.toast = "Please enter your recovery phrase"]
            /\ UNCHANGED api
       ELSE /\ client' = [client EXCEPT !.pc = "importing"]
            /\ api' = [api EXCEPT !.req = WalletReq("import", trim(m))]
    /\ UNCHANGED <<localStorage, used>>
    /\ WalletFrame

\* a client other than the pages sends a request
Request(r) ==
    /\ client.pc \in {"home", "portfolio"}
    /\ api.req = NoReq
    /\ used.requests < MaxRequests
    /\ used' = [used EXCEPT !.requests = @ + 1]
    /\ api' = [api EXCEPT !.req = r]
    /\ UNCHANGED <<localStorage, client>>
    /\ WalletFrame

\* PortfolioPage.tsx, line 70: the portfolio component asks for the assets
fetchPortfolio ==
    /\ client.pc = "portfolio"
    /\ api.req = NoReq
    /\ used.requests < MaxRequests
    /\ used' = [used EXCEPT !.requests = @ + 1]
    /\ api' = [api EXCEPT !.req = PortfolioReq(client.walletInfo.walletId)]
    /\ UNCHANGED <<localStorage, client>>
    /\ WalletFrame

Served(answer, sdk, balances) ==
    /\ api' = [req |-> NoReq, last |-> api.req, res |-> answer.res, calls |-> answer.calls,
               sdk |-> sdk, balances |-> balances]
    /\ UNCHANGED <<localStorage, client, used>>
    /\ WalletFrame

WalletPOST(sdk) ==
    /\ api.req.route = "POST /api/wallet"
    /\ Served(walletPOST(api.req, sdk), sdk, <<>>)

VerifyGET(sdk) ==
    /\ api.req.route = "GET /api/wallet/verify"
    /\ Served(verifyGET(api.req, sdk), sdk, <<>>)

PortfolioGET(sdk, balances) ==
    /\ api.req.route = "GET /api/portfolio"
    /\ sdk # "ok" => balances = <<>>
    /\ Served(portfolioGET(api.req, sdk, balances), sdk, balances)

\* app/page.tsx, lines 35-51 and 71-88: the answer of POST /api/wallet
Stored(op) ==
    /\ client.pc = op
    /\ api.req = NoReq
    /\ IF api.res.status = 200
       THEN /\ localStorage' = setItems(api.res.wallet, api.res.addresses)
            /\ client' = [client EXCEPT !.pc = "mount", !.toast = "success"]
       ELSE /\ client' = [client EXCEPT !.pc = "home", !.toast = "failed"]
            /\ UNCHANGED localStorage
    /\ UNCHANGED <<api, used>>
    /\ WalletFrame

createDone == Stored("creating")
importDone == Stored("importing")

\* the fetch of Home rejects, or the answer is not JSON
HomeFetchReject ==
    /\ client.pc \in {"creating", "importing"}
    /\ client' = [client EXCEPT !.pc = "home", !.toast = "failed"]
    /\ api' = [api EXCEPT !.req = NoReq]
    /\ UNCHANGED <<localStorage, used>>
    /\ WalletFrame

\* portfolio/page.tsx, lines 54-61: catch and finally of checkWallet
CheckFailed ==
    /\ localStorage' = removeItems(localStorage)
    /\ client' = [client EXCEPT !.pc = "homeMount", !.walletInfo = NoWallet, !.read = NoWallet]

\* portfolio/page.tsx, lines 28-48: checkWallet up to the await of fetch
checkWallet ==
    /\ client.pc = "mount"
    /\ api.req = NoReq
    /\ IF \/ localStorage.walletId = Absent
          \/ localStorage.addresses = AbsentText
          \/ parseThrows(localStorage.addresses)
          \/ ~isArray(localStorage.addresses)
       THEN /\ CheckFailed
            /\ UNCHANGED api
       ELSE /\ client' = [client EXCEPT !.pc = "verifying",
                             !.read = [walletId |-> localStorage.walletId,
                                       addresses |-> localStorage.addresses.value]]
            /\ api' = [api EXCEPT !.req = VerifyReq(localStorage.walletId)]
            /\ UNCHANGED localStorage
    /\ UNCHANGED used
    /\ WalletFrame

\* portfolio/page.tsx, lines 48-61: the answer of the verify route
checkDone ==
    /\ client.pc = "verifying"
    /\ api.req = NoReq
    /\ IF api.res.status = 200
       THEN /\ client' = [client EXCEPT !.pc = "portfolio", !.walletInfo = client.read]
            /\ UNCHANGED localStorage
       ELSE CheckFailed
    /\ UNCHANGED <<api, used>>
    /\ WalletFrame

\* the fetch of checkWallet rejects
checkReject ==
    /\ client.pc = "verifying"
    /\ api.req # NoReq
    /\ CheckFailed
    /\ api' = [api EXCEPT !.req = NoReq]
    /\ UNCHANGED used
    /\ WalletFrame

\* Header, lines 33-37
handleDisconnect ==
    /\ client.pc = "portfolio"
    /\ localStorage' = removeItems(localStorage)
    /\ client' = [client EXCEPT !.pc = "homeMount", !.walletInfo = NoWallet, !.read = NoWallet]
    /\ UNCHANGED <<api, used>>
    /\ WalletFrame

\* another tab of the origin, or the user, changes localStorage
StorageEdited(ls) ==
    /\ used.edits < MaxEdits
    /\ ls # localStorage
    /\ localStorage' = ls
    /\ used' = [used EXCEPT !.edits = @ + 1]
    /\ UNCHANGED <<client, api>>
    /\ WalletFrame

\* ------------------------------------------------------- the tools' _call
\* _call is what the agent invokes.  The fetches are taken here by their
\* results: fetchNewsWithFilter and fetchTwitterData never reject (they
\* answer {results: []} and null), fetchPrice, fetchTechnicalIndicators and
\* analyze reject when their request fails.

Undefined == "undefined"      \* a tool call without input: query is undefined
CallInputs == {"btc", Undefined}

\* articles of the upstream feed: title, impact score (in thirds), whether
\* new URL(article.url) accepts the url, and whether the impact score is NaN
Article(title, impact, valid) ==
    [title |-> title, impact_score |-> impact, validUrl |-> valid, nan |-> FALSE]
\* calculateArticleMetrics, lines 81-82: votes that are truthy and not a
\* number (the feed sends an object of counters) make article.votes / 100,
\* Math.min(1, NaN) and the impact score NaN
NotANumber(article) == [article EXCEPT !.nan = TRUE]
Feed == <<Article("a", 1, TRUE), Article("b", 3, TRUE), Article("c", 2, TRUE), Article("d", 3, TRUE)>>
FeedLateBadUrl == <<Article("a", 2, TRUE), Article("b", 2, TRUE), Article("c", 1, TRUE), Article("d", 3, FALSE)>>
FeedBadUrl == <<Article("a", 1, TRUE), Article("b", 3, FALSE)>>
FeedVotesObject == <<Article("a", 1, TRUE), NotANumber(Article("b", 1, TRUE)), Article("c", 2, TRUE)>>
UpstreamLists ==
    {SubSeq(Feed, 1, n) : n \in 0..4} \cup {FeedLateBadUrl, FeedBadUrl, FeedVotesObject}

\* what fetchNewsWithFilter resolves to: the parsed body ({results: [...]},
\* or null when the body is the JSON text null), {results: []} on a failure
Unset == [state |-> "unset", isNull |-> FALSE, results |-> <<>>]
Pending == [state |-> "pending", isNull |-> FALSE, results |-> <<>>]
Resolved(isNull, results) == [state |-> "resolved", isNull |-> isNull, results |-> results]
NewsData == {Resolved(FALSE, l) : l \in UpstreamLists} \cup {Resolved(TRUE, <<>>)}

slice(articles, from, to) == SubSeq(articles, from + 1, IF Len(articles) < to THEN Len(articles) ELSE to)

\* the comparator (a, b) => b.impact_score - a.impact_score; sort takes a
\* result of NaN as 0
compareImpact(a, b) == IF a.nan \/ b.nan THEN 0 ELSE b.impact_score - a.impact_score

\* Array.prototype.sort: stable, an element moves before those the
\* comparator puts after it
RECURSIVE insertByImpact(_, _)
insertByImpact(a, sorted) ==
    IF sorted = <<>> THEN <<a>>
    ELSE LET last == sorted[Len(sorted)] IN
         IF compareImpact(last, a) > 0
         THEN insertByImpact(a, SubSeq(sorted, 1, Len(sorted) - 1)) \o <<last>>
         ELSE sorted \o <<a>>

RECURSIVE sortByImpact(_)
sortByImpact(articles) ==
    IF articles = <<>> THEN <<>>
    ELSE insertByImpact(articles[Len(articles)], sortByImpact(SubSeq(articles, 1, Len(articles) - 1)))

\* formatArticles throws when new URL rejects the url of one of the mapped
\* articles; bearish.results throws when the body is null
formatThrows(data) ==
    \/ data.isNull
    \/ \E i \in 1..Len(slice(data.results, 0, 3)) : ~data.results[i].validUrl

formatArticles(articles, sentiment) ==
    LET mapped == [i \in 1..Len(slice(articles, 0, 3)) |->
                      [title |-> articles[i].title, sentiment |-> sentiment,
                       impact_score |-> articles[i].impact_score, nan |-> articles[i].nan]]
    IN sortByImpact(mapped)

\* _call, line 171
needsTrendingInclusive(totalArticles) == totalArticles <= 5
needsTrending(totalArticles) == totalArticles < 5

NoResult == [kind |-> "none", success |-> FALSE, error |-> "",
             counts |-> [bullish |-> 0, bearish |-> 0, trending |-> 0],
             overallSentiment |-> "", articles |-> [bearish |-> <<>>, bullish |-> <<>>, trending |-> <<>>]]

\* CryptoNewsTool._call, lines 176-198: the summary of the formatted lists
newsSummaryTieBullish(bearish, bullish, trending) ==
    [NoResult EXCEPT !.kind = "resolved", !.success = TRUE,
                     !.counts = [bullish |-> Len(bullish), bearish |-> Len(bearish), trending |-> Len(trending)],
                     !.overallSentiment = IF Len(bullish) >= Len(bearish) THEN "bullish" ELSE "bearish",
                     !.articles = [bearish |-> bearish, bullish |-> bullish, trending |-> trending]]
newsSummary(bearish, bullish, trending) ==
    [NoResult EXCEPT !.kind = "resolved", !.success = TRUE,
                     !.counts = [bullish |-> Len(bullish), bearish |-> Len(bearish), trending |-> Len(trending)],
                     !.overallSentiment = IF Len(bullish) > Len(bearish) THEN "bullish" ELSE "bearish",
                     !.articles = [bearish |-> bearish, bullish |-> bullish, trending |-> trending]]

\* CryptoNewsTool._call, lines 199-212: the catch block
newsCaughtRethrows == [NoResult EXCEPT !.kind = "rejected", !.error = "News processing error"]
newsCaught == [NoResult EXCEPT !.kind = "resolved", !.overallSentiment = "neutral"]

\* SocialDataTool._call
socialFailed == [NoResult EXCEPT !.kind = "resolved", !.error = "Failed to fetch Twitter data"]
socialCaught == [NoResult EXCEPT !.kind = "resolved", !.error = "Error processing social data"]
socialSucceeded == [NoResult EXCEPT !.kind = "resolved", !.success = TRUE]

\* PriceTool, TechnicalAnalysisTool and MarketDataTool: the catch of _call
wrapPrefix(t) ==
    IF t = "price" THEN "Failed to fetch price data: "
    ELSE IF t = "technical" THEN "Failed to fetch technical indicators: "
    ELSE "Failed to analyze market data: "
wrapped(t, message) == [NoResult EXCEPT !.kind = "rejected", !.error = wrapPrefix(t) \o message]

IdleToolCall == [tool |-> "none", query |-> "", pc |-> "idle", bearish |-> Unset, bullish |-> Unset,
                 trending |-> Unset, outcome |-> "none", log |-> <<>>, result |-> NoResult]

CallFrame == UNCHANGED <<toolVars, relayVars, formVars, walletVars, portfolioVars>>

\* CryptoNewsTool._call, lines 157-162: both fetches start, in this order
CryptoNewsTool_call(q) ==
    /\ tcall.pc = "idle"
    /\ tcall' = IF q = Undefined
                THEN \* getCacheKey: query.toLowerCase() throws, Promise.all rejects
                     [tcall EXCEPT !.tool = "news", !.query = q, !.pc = "done",
                                   !.result = newsCaught]
                ELSE [tcall EXCEPT !.tool = "news", !.query = q, !.pc = "Promise.all",
                                   !.bearish = Pending, !.bullish = Pending,
                                   !.log = <<"start bearish", "start bullish">>]
    /\ CallFrame

\* one of the two fetches of Promise.all resolves
fetchNewsResolved(f, data) ==
    /\ tcall.pc = "Promise.all"
    /\ tcall[f].state = "pending"
    /\ tcall' = [tcall EXCEPT ![f] = data, !.log = Append(@, "done " \o f)]
    /\ CallFrame

\* lines 164-175: Promise.all has resolved; the lists are formatted and the
\* trending fetch starts when they hold too few articles
afterPromiseAll ==
    /\ tcall.pc = "Promise.all"
    /\ tcall.bearish.state = "resolved"
    /\ tcall.bullish.state = "resolved"
    /\ tcall' = IF formatThrows(tcall.bearish) \/ formatThrows(tcall.bullish)
                THEN [tcall EXCEPT !.pc = "done", !.result = newsCaught]
                ELSE LET bearish == formatArticles(tcall.bearish.results, "bearish")
                         bullish == formatArticles(tcall.bullish.results, "bullish")
                     IN IF needsTrending(Len(bearish) + Len(bullish))
                        THEN [tcall EXCEPT !.pc = "trending", !.trending = Pending,
                                           !.log = Append(@, "start rising")]
                        ELSE [tcall EXCEPT !.pc = "done",
                                           !.result = newsSummary(bearish, bullish, <<>>)]
    /\ CallFrame

\* lines 172-198: the trending fetch resolves
trendingResolved(data) ==
    /\ tcall.pc = "trending"
    /\ tcall' = [tcall EXCEPT !.pc = "done", !.trending = data, !.log = Append(@, "done rising"),
                    !.result = IF formatThrows(data)
                               THEN newsCaught
                               ELSE newsSummary(formatArticles(tcall.bearish.results, "bearish"),
                                                formatArticles(tcall.bullish.results, "bullish"),
                                                formatArticles(data.results, "trending"))]
    /\ CallFrame

\* SocialDataTool._call and the three _call without a catch-all: up to the await
Tool_call(t, q) ==
    /\ tcall.pc = "idle"
    /\ tcall' = IF q = Undefined
                THEN \* symbol.toLowerCase() throws a TypeError before any request
                     [tcall EXCEPT !.tool = t, !.query = q, !.pc = "done", !.outcome = "throw",
                                   !.result = IF t = "social" THEN socialCaught
                                              ELSE wrapped(t, "TypeError")]
                ELSE [tcall EXCEPT !.tool = t, !.query = q, !.pc = "await"]
    /\ CallFrame

SocialDataTool_call(q) == Tool_call("social", q)
PriceTool_call(q) == Tool_call("price", q)
TechnicalAnalysisTool_call(q) == Tool_call("technical", q)
MarketDataTool_call(q) == Tool_call("market", q)

\* the fetch of the tool settles: "ok" with data, "notok" and "throw" without
\* (fetchTwitterData resolves to null, the other three reject)
fetchSettled(outcome) ==
    /\ tcall.pc = "await"
    /\ tcall' = [tcall EXCEPT !.pc = "done", !.outcome = outcome,
                    !.result = IF tcall.tool = "social"
                               THEN (IF outcome = "ok" THEN socialSucceeded ELSE socialFailed)
                               ELSE IF outcome = "ok"
                               THEN [NoResult EXCEPT !.kind = "resolved", !.success = TRUE]
                               ELSE wrapped(tcall.tool, IF outcome = "notok" THEN "API Error" ELSE "fetch failed")]
    /\ CallFrame

\* ------------------------------------------- Portfolio.handleAssetClick
\* The four analysis steps of the dialog.  setAnalysisSteps is given an
\* updater; the updater of a tools event reads the local variable
\* currentStep, which the handler increments right after the call.  React
\* runs an updater at the call when the component has no update pending, and
\* otherwise when it renders.

Coins == {"BTC", "ETH"}
StepCount == 4
StepIndex == 0..(StepCount - 1)
AllPending == [i \in StepIndex |-> "pending"]
AllComplete == [i \in StepIndex |-> "complete"]

\* the events of the response: a tools event, an agent event with steps, the
\* final agent event (string content), and a tools event whose data line is
\* cut by the end of a chunk
StreamEvents == {"tools", "agent_steps", "agent_final", "tools_cut"}

\* what one reader.read() hands over: the events of the chunk, in order; the
\* final agent event ends the stream
StreamChunks ==
    {<<e>> : e \in StreamEvents} \cup
    {<<e, f>> : e \in StreamEvents \ {"agent_final"}, f \in StreamEvents \ {"tools_cut"}}

\* lines 126-132: the updater of a tools event, run while currentStep is k
toolsUpdater(steps, k) ==
    [i \in StepIndex |->
        IF i = k THEN "complete" ELSE IF i = k + 1 THEN "loading" ELSE steps[i]]

\* lines 234-236: the updater of the catch block
errorUpdater(steps) ==
    [i \in StepIndex |-> IF steps[i] = "loading" THEN "error" ELSE steps[i]]

applyUpdater(kind, steps, k) ==
    IF kind = "tools" THEN toolsUpdater(steps, k)
    ELSE IF kind = "complete" THEN AllComplete
    ELSE errorUpdater(steps)

\* an update that waits for the render: its state when it was computed at
\* the call, its updater otherwise
Eager(steps) == [kind |-> "eager", state |-> steps]
Lazy(kind) == [kind |-> kind, state |-> AllPending]

\* setAnalysisSteps(updater): without an update pending the updater runs now
\* (and an unchanged state schedules nothing); with one pending it is queued
setAnalysisSteps(p, kind, pendingElsewhere) ==
    IF p.queue = <<>> /\ ~pendingElsewhere
    THEN LET s == applyUpdater(kind, p.steps, p.currentStep) IN
         IF s = p.steps THEN p ELSE [p EXCEPT !.queue = <<Eager(s)>>]
    ELSE [p EXCEPT !.queue = Append(@, Lazy(kind))]

\* the render: the queued updates are applied in order, the updaters with
\* the value currentStep has by then
RECURSIVE processQueue(_, _, _)
processQueue(steps, queue, k) ==
    IF queue = <<>> THEN steps
    ELSE LET u == Head(queue) IN
         processQueue(IF u.kind = "eager" THEN u.state ELSE applyUpdater(u.kind, steps, k),
                      Tail(queue), k)

\* lines 119-229: one line of a chunk
handleData(p, e) ==
    IF e = "tools"
    THEN [setAnalysisSteps(p, "tools", FALSE) EXCEPT !.currentStep = @ + 1, !.toolsEvents = @ + 1]
    ELSE IF e = "tools_cut"
    THEN \* JSON.parse throws on the cut line, the rest has no 'data: ' prefix
         [p EXCEPT !.toolsEvents = @ + 1]
    ELSE IF e = "agent_final"
    THEN \* setFinalAnalysis and setAssets come first: an update is pending
         [setAnalysisSteps(p, "complete", TRUE) EXCEPT !.final = TRUE]
    ELSE p

RECURSIVE handleChunk(_, _)
handleChunk(p, lines) ==
    IF lines = <<>> THEN p ELSE handleChunk(handleData(p, Head(lines)), Tail(lines))

IdlePortfolio == [pc |-> "idle", selectedAsset |-> "none", steps |-> AllPending, queue |-> <<>>,
                  currentStep |-> 0, toolsEvents |-> 0, events |-> 0, final |-> FALSE, clicks |-> 0]

PortfolioFrame == UNCHANGED <<toolVars, relayVars, formVars, walletVars, callVars>>

\* lines 90-101: a click on an asset when no analysis is running; the
\* updates of the click handler are rendered before the request is answered
handleAssetClick(coin) ==
    /\ portfolio.pc \in {"idle", "done", "failed"}
    /\ portfolio.clicks < MaxClicks
    /\ portfolio' = [IdlePortfolio EXCEPT !.pc = "fetch", !.selectedAsset = coin,
                                         !.clicks = portfolio.clicks + 1]
    /\ PortfolioFrame

\* lines 232-238: the catch block
analysisFailed(p) == [setAnalysisSteps(p, "error", FALSE) EXCEPT !.pc = "failed"]

\* lines 103-110: the response of POST /api/analyze
AnalyzeResolve(ok) ==
    /\ portfolio.pc = "fetch"
    /\ portfolio' = IF ok THEN [portfolio EXCEPT !.pc = "reading", !.currentStep = 0]
                    ELSE analysisFailed(portfolio)
    /\ PortfolioFrame

AnalyzeReject ==
    /\ portfolio.pc = "fetch"
    /\ portfolio' = analysisFailed(portfolio)
    /\ PortfolioFrame

\* lines 112-231: reader.read() hands over a chunk
ReadChunk(lines) ==
    /\ portfolio.pc = "reading"
    /\ ~portfolio.final
    /\ portfolio.events + Len(lines) <= MaxStreamEvents
    /\ portfolio' = [handleChunk(portfolio, lines) EXCEPT !.events = @ + Len(lines)]
    /\ PortfolioFrame

\* line 114: done
ReadEnd ==
    /\ portfolio.pc = "reading"
    /\ portfolio' = [portfolio EXCEPT !.pc = "done"]
    /\ PortfolioFrame

\* reader.read() rejects
ReadFails ==
    /\ portfolio.pc = "reading"
    /\ portfolio' = analysisFailed(portfolio)
    /\ PortfolioFrame

\* React renders the component
Render ==
    /\ portfolio.queue # <<>>
    /\ portfolio' = [portfolio EXCEPT
                        !.steps = processQueue(portfolio.steps, portfolio.queue, portfolio.currentStep),
                        !.queue = <<>>]
    /\ PortfolioFrame

\* ------------------------------------------------------------ specification
\* one SearchForm in the browser and the head of the route handler
InitForm ==
    /\ form = IdleForm
    /\ post = IdlePost
    /\ body = IdleBody

InitWallet ==
    /\ localStorage = EmptyStorage
    /\ client = IdleClient
    /\ api = IdleApi
    /\ used = [edits |-> 0, requests |-> 0]

InitCall == tcall = IdleToolCall

InitPortfolio == portfolio = IdlePortfolio

InitApp == InitForm /\ InitWallet /\ InitCall /\ InitPortfolio

InitTools ==
    /\ limits = [calls |-> MaxCalls, active |-> MaxActive, ticks |-> MaxTicks, history |-> FALSE]
    /\ now = StartTime
    /\ ticks = 0
    /\ cache = [t \in Tools |-> EmptyMap]
    /\ lastCallTime = [t \in Tools |-> 0]
    /\ calls = [c \in CallIds |-> IdleCall]
    /\ started = 0
    /\ ret = IdleCall
    /\ limGap = [limiter |-> "none", gap |-> NoTime]
    /\ sendLast = [t \in Tools |-> NoTime]
    /\ sendGap = [tool |-> "none", gap |-> NoTime]
    /\ lastStore = [t \in Tools |-> EmptyMap]

InitRelay ==
    /\ rpc = "stream"
    /\ chunks = <<>>
    /\ events = <<>>
    /\ writer = "writable"
    /\ closedAt = NoTime
    /\ threwAt = NoTime

Init == InitTools /\ InitRelay /\ InitApp

Next ==
    \/ \E c \in CallIds : fetchNewsWithFilter(c)
    \/ \E c \in CallIds : fetchTwitterData(c)
    \/ \E c \in CallIds : analyze(c)
    \/ \E c \in CallIds : fetchPrice(c)
    \/ \E c \in CallIds : fetchTechnicalIndicators(c)
    \/ \E c \in CallIds : waitForNext(c)
    \/ \E c \in CallIds, o \in {"ok", "notok", "throw", "badbody"}, d \in Payloads :
            fetchResponse(c, o, d)
    \/ \E c \in CallIds : fetchWithRetry(c)
    \/ Tick

Spec == Init /\ [][Next]_vars

\* the same program with fewer calls and a longer time: a fetchWithRetry can
\* use up its retries
InitRetry ==
    /\ limits = [calls |-> RetryCalls, active |-> RetryActive, ticks |-> RetryTicks, history |-> TRUE]
    /\ now = StartTime
    /\ ticks = 0
    /\ cache = [t \in Tools |-> EmptyMap]
    /\ lastCallTime = [t \in Tools |-> 0]
    /\ calls = [c \in CallIds |-> IdleCall]
    /\ started = 0
    /\ ret = IdleCall
    /\ limGap = [limiter |-> "none", gap |-> NoTime]
    /\ sendLast = [t \in Tools |-> NoTime]
    /\ sendGap = [tool |-> "none", gap |-> NoTime]
    /\ lastStore = [t \in Tools |-> EmptyMap]
    /\ InitRelay
    /\ InitApp

SpecRetry == InitRetry /\ [][Next]_vars

\* one request to POST /api/analyze
NextRelay ==
    \/ AgentYield
    \/ Write
    \/ AgentEnd
    \/ AgentThrow
    \/ Close
    \/ CatchWrite
    \/ CatchClose
    \/ ClientCancel

SpecRelay == Init /\ [][NextRelay]_vars

\* one SearchForm in the browser and the head of the route handler
NextForm ==
    \/ \E v \in CoinNames : setCoinName(v)
    \/ handleSubmit
    \/ \E b \in Bodies : OtherClient(b)
    \/ POST
    \/ FetchResolve
    \/ FetchReject
    \/ \E pieces \in ReadChunks : Read(pieces)
    \/ ReadDone
    \/ ReadReject

SpecForm == Init /\ [][NextForm]_vars

\* one browser tab on the wallet pages, and the three wallet routes
NextWallet ==
    \/ HomeMount
    \/ handleCreateWallet
    \/ \E m \in Mnemonics : handleImportWallet(m)
    \/ \E r \in OtherRequests : Request(r)
    \/ fetchPortfolio
    \/ \E sdk \in SdkOutcomes : WalletPOST(sdk)
    \/ \E sdk \in SdkOutcomes : VerifyGET(sdk)
    \/ \E sdk \in SdkOutcomes, balances \in BalanceMaps : PortfolioGET(sdk, balances)
    \/ createDone
    \/ importDone
    \/ HomeFetchReject
    \/ checkWallet
    \/ checkDone
    \/ checkReject
    \/ handleDisconnect
    \/ \E ls \in StorageStates : StorageEdited(ls)

SpecWallet == Init /\ [][NextWallet]_vars

\* one _call of one tool
NextCall ==
    \/ \E q \in CallInputs : CryptoNewsTool_call(q)
    \/ \E f \in {"bearish", "bullish"}, data \in NewsData : fetchNewsResolved(f, data)
    \/ afterPromiseAll
    \/ \E data \in NewsData : trendingResolved(data)
    \/ \E q \in CallInputs : SocialDataTool_call(q)
    \/ \E q \in CallInputs : PriceTool_call(q)
    \/ \E q \in CallInputs : TechnicalAnalysisTool_call(q)
    \/ \E q \in CallInputs : MarketDataTool_call(q)
    \/ \E o \in {"ok", "notok", "throw"} : fetchSettled(o)

SpecCall == Init /\ [][NextCall]_vars

NextPortfolio ==
    \/ \E coin \in Coins : handleAssetClick(coin)
    \/ \E ok \in BOOLEAN : AnalyzeResolve(ok)
    \/ AnalyzeReject
    \/ \E lines \in StreamChunks : ReadChunk(lines)
    \/ ReadEnd
    \/ ReadFails
    \/ Render

SpecPortfolio == Init /\ [][NextPortfolio]_vars

TypeOK ==
    /\ now \in Nat
    /\ \A c \in CallIds : calls[c].pc \in {"idle", "waitForNext", "fetch", "backoff"}
    /\ rpc \in {"stream", "write", "close", "catch_write", "catch_close", "done", "crashed"}
    /\ writer \in {"writable", "closed", "errored"}

\* ------------------------------------------------------------------ claims
HttpFailures == {"notok", "throw"}
InProgress(c) == calls[c].pc # "idle"

\* C1: a call that returns a payload from the cache read an entry whose
\* timestamp is strictly less than CACHE_DURATION (300000 ms) before the read.
CacheHitIsFresh ==
    ret.result = "hit" => ret.hitAge >= 0 /\ ret.hitAge < 300000

\* a call was answered from an entry stored earlier
CacheHitIsFreshWitness ==
    /\ ret.result = "hit"
    /\ ret.hitAge > 0

\* C2: a call for key k that starts less than 5 minutes after a result was
\* stored for k returns the stored payload and sends no upstream request.
FreshStoreIsServed ==
    /\ ret.fresh => /\ ret.result = "hit"
                    /\ ret.data = ret.storeData
                    /\ ret.sent = 0
    /\ \A c \in CallIds : InProgress(c) => ~calls[c].fresh

\* a call started 299950 ms after the store and was served from the cache
FreshStoreIsServedWitness ==
    /\ ret.fresh
    /\ ret.result = "hit"
    /\ ret.hitAge = CACHE_DURATION - ShortStep
    /\ ret.sent = 0

\* C3 as claimed: every tool retries a failed upstream request before it
\* reports the failure to its caller.
EveryToolRetries ==
    (ret.result = "fail" /\ ret.outcome \in HttpFailures) => ret.retryCount > 0

\* C3 as amended: the news and the social tool report a failed request (one
\* that throws or answers non-ok) only after MAX_RETRIES retries, waited for
\* with growing delays; the market, price and technical tools report it
\* after their first attempt, without a retry.
OnlyNewsAndSocialRetry ==
    (ret.result = "fail" /\ ret.outcome \in HttpFailures) =>
        IF ret.tool \in {"news", "social"}
        THEN /\ ret.retryCount = 3
             /\ ret.sent = 4
             /\ ret.delays = <<1000, 2000, 4000>>
             /\ ret.took >= 7000
        ELSE /\ ret.retryCount = 0
             /\ ret.delays = <<>>
             /\ ret.sent = IF ret.tool = "market" THEN 2 ELSE 1

\* a news or social call has used up its retries and reported the failure
OnlyNewsAndSocialRetryWitness ==
    /\ ret.result = "fail"
    /\ ret.outcome \in HttpFailures
    /\ ret.tool \in {"news", "social"}
    /\ ret.retryCount = 3

\* C4: between two consecutive upstream requests of one tool instance at
\* least minInterval elapses (200 ms news, 100 ms the others).
RequestsAreRateLimited ==
    sendGap.gap # NoTime =>
        sendGap.gap >= (IF sendGap.tool = "news" THEN 200 ELSE 100)

\* C5: the completion times of two waitForNext calls of one RateLimiter are
\* at least minInterval apart.
WaitForNextIsSpaced ==
    limGap.gap # NoTime =>
        limGap.gap >= (IF limGap.limiter = "news" THEN 200 ELSE 100)

\* C6: no step deletes a cache entry, the key set of a cache never shrinks,
\* and an entry appears or changes only when a successful fetch for its key
\* stores its result; an expired entry is left where it is by the read.
CacheOnlyGrowsStep ==
    \A t \in Tools :
        /\ \A k \in DOMAIN cache[t] :
                /\ k \in DOMAIN cache'[t]
                /\ cache'[t][k] # cache[t][k] =>
                        /\ ret'.result = "ok" /\ ret'.tool = t /\ ret'.key = k
                        /\ cache'[t][k] = [timestamp |-> now, data |-> ret'.data]
        /\ \A k \in DOMAIN cache'[t] \ DOMAIN cache[t] :
                /\ ret'.result = "ok" /\ ret'.tool = t /\ ret'.key = k
                /\ cache'[t][k] = [timestamp |-> now, data |-> ret'.data]

CacheOnlyGrows == [][CacheOnlyGrowsStep]_vars

\* a read has passed over an expired entry, and the entry is still there
CacheOnlyGrowsWitness ==
    \E c \in CallIds :
        /\ InProgress(c)
        /\ calls[c].key \in DOMAIN cache[calls[c].tool]
        /\ now - cache[calls[c].tool][calls[c].key].timestamp >= CACHE_DURATION

\* C7: a step of a call to one tool leaves the cache and the lastCallTime of
\* every other tool as they were.
ToolOfStep(c) == IF calls[c].tool # "none" THEN calls[c].tool ELSE calls'[c].tool

ToolsShareNoStateStep ==
    /\ \A c \in CallIds : calls'[c] # calls[c] =>
            \A u \in Tools \ {ToolOfStep(c)} :
                /\ cache'[u] = cache[u]
                /\ lastCallTime'[LimiterOf(u)] = lastCallTime[LimiterOf(u)]
    /\ (\A c \in CallIds : calls'[c] = calls[c]) =>
            /\ cache' = cache
            /\ lastCallTime' = lastCallTime

ToolsShareNoState == [][ToolsShareNoStateStep]_vars

\* calls to two different tools are in progress, and a third tool has state
ToolsShareNoStateWitness ==
    \E c, b \in CallIds :
        /\ InProgress(c) /\ InProgress(b)
        /\ calls[c].tool # calls[b].tool
        /\ \E u \in Tools \ {calls[c].tool, calls[b].tool} :
                cache[u] # EmptyMap /\ lastCallTime[u] # 0

\* ---------------------------------------------------------- claims: relay
RECURSIVE ExpectedFrom(_)
\* the events of the chunks i..Len(chunks) that have an agent or a tools key
ExpectedFrom(i) ==
    IF i > Len(chunks) THEN <<>>
    ELSE IF chunks[i] \in {"agent_steps", "agent_final", "tools"}
         THEN <<[type |-> IF chunks[i] = "tools" THEN "tools" ELSE "agent", chunk |-> i]>>
                  \o ExpectedFrom(i + 1)
         ELSE ExpectedFrom(i + 1)

Expected == ExpectedFrom(1)

\* the events of the response that were made from chunks
Forwarded == SelectSeq(events, LAMBDA e : e.type # "error")

IsPrefix(s, t) == Len(s) <= Len(t) /\ SubSeq(t, 1, Len(s)) = s

ErrorEvent == [type |-> "error", chunk |-> 0]
ErrorCount == Cardinality({i \in 1..Len(events) : events[i].type = "error"})
RelayEnded == rpc \in {"done", "crashed"}

\* C8 as claimed: when the relay is not in the middle of a write, every chunk
\* with an agent or a tools key has exactly one event of its type in the
\* response, in the order of the chunks.
EveryChunkForwarded ==
    rpc # "write" => Forwarded = Expected

\* C8 as amended: as long as the response accepts the writes, every chunk
\* with an agent or a tools key has exactly one event of its type in the
\* response, in the order of the chunks; the first chunk whose write is
\* rejected is dropped, and it is the last chunk taken from the stream.
ChunksForwardedWhileWritable ==
    /\ IsPrefix(Forwarded, Expected)
    /\ Len(Expected) - Len(Forwarded) <= 1
    /\ (rpc # "write" /\ writer # "errored") => Forwarded = Expected
    /\ (rpc # "write" /\ Forwarded # Expected) =>
            /\ writer = "errored"
            /\ chunks[Len(chunks)] \in {"agent_steps", "agent_final", "tools"}
            /\ rpc \in {"catch_write", "crashed"}

\* an agent chunk, a tools chunk and a final agent chunk were forwarded in
\* that order, with a chunk of neither key skipped
ChunksForwardedWhileWritableWitness ==
    /\ rpc = "done"
    /\ Len(chunks) = 3
    /\ "other" \in {chunks[i] : i \in 1..Len(chunks)}
    /\ Len(events) = 2
    /\ events[1].type # events[2].type

\* C9: when the background relay has ended, the response stream is closed.
StreamClosedAtEnd ==
    RelayEnded => writer = "closed"

\* C10 as claimed: when the agent stream has thrown and the relay has ended,
\* the response holds exactly one error event, as its last event, behind
\* the events forwarded before the failure.
ErrorEventAfterThrow ==
    (threwAt # NoTime /\ RelayEnded) =>
        /\ ErrorCount = 1
        /\ events[Len(events)] = ErrorEvent
        /\ Len(events) = threwAt + 1

\* C10 as amended: when the agent stream throws while the response still
\* accepts writes, exactly one error event is written, as the last event,
\* behind the events forwarded before the failure; when the response no
\* longer accepts writes, no error event is written and the response keeps
\* the events forwarded before the failure.
ErrorEventAfterThrowWhileWritable ==
    /\ ErrorCount <= 1
    /\ threwAt # NoTime =>
        /\ SubSeq(events, 1, threwAt) = SubSeq(Expected, 1, threwAt)
        /\ rpc \in {"catch_close", "done"} =>
                /\ events = Append(SubSeq(Expected, 1, threwAt), ErrorEvent)
                /\ Forwarded = Expected
        /\ rpc = "crashed" =>
                /\ writer = "errored"
                /\ Len(events) \in {threwAt, threwAt + 1}
                /\ Len(events) = threwAt + 1 => events[Len(events)] = ErrorEvent
    /\ closedAt # NoTime => Len(events) = closedAt

\* the agent stream threw after two events, and the response was closed
\* with the error event behind them
ErrorEventAfterThrowWhileWritableWitness ==
    /\ threwAt = 2
    /\ rpc = "done"
    /\ Len(events) = 3
    /\ events[3] = ErrorEvent

\* ----------------------------------------------------- claims: SearchForm
AgentEvents(evs) == SelectSeq(evs, LAMBDA e : e.type = "agent")
ToolsEvents(evs) == SelectSeq(evs, LAMBDA e : e.type = "tools")

\* C11 (as stated): during a submission results.agent holds every agent
\* event received so far and results.tools every tools event received so far,
\* in arrival order, and isLoading is false whenever no submission is running.
\* Violated: an event whose line is cut by the end of a chunk is never added.
ReceivedEventsAreRendered ==
    /\ form.agent = AgentEvents(body.received)
    /\ form.tools = ToolsEvents(body.received)
    /\ form.pc = "idle" => ~form.isLoading

\* C12: a request without coinName, or with an empty one, is answered 400
\* "Coin name is required" with no agent call and no stream, and a submit of
\* an empty or all-blank input sends no request.
EmptyCoinNameIsRejected ==
    /\ post.last.coinName \in {"missing", ""} =>
          /\ post.last.status = 400
          /\ post.last.error = "Coin name is required"
          /\ ~post.last.agent
          /\ ~post.last.stream
    /\ post.agentCalls <= post.handled /\ post.streams = post.agentCalls
    /\ form.submits > 0 /\ form.lastSubmit.coinName \in {"", " "} =>
          /\ ~form.lastSubmit.sent
          /\ form.pc = "idle"

EmptyCoinNameIsRejectedWitness ==
    /\ post.last.coinName = ""
    /\ post.last.status = 400
    /\ post.agentCalls = 0
    /\ form.submits > 0
    /\ form.lastSubmit = [coinName |-> " ", sent |-> FALSE]

\* ------------------------------------------- claims: wallet and portfolio
\* C13: POST /api/wallet answers 'import' without a mnemonic phrase with 400
\* and no SDK call, any action other than 'create' and 'import' with 400
\* 'Invalid action' and no SDK call, an exception of the SDK with 500, and
\* success: true with the wallet id and the addresses only for a create or
\* import whose SDK calls all returned.
WalletPostDispatches ==
    api.last.route = "POST /api/wallet" /\ api.last.action # "malformed" =>
        LET a == api.last.action
            m == api.last.mnemonicPhrase
            threw == api.calls # <<>> /\ api.sdk # "ok"
        IN
        /\ a = "import" /\ m \in {"missing", ""} =>
              api.res.status = 400 /\ api.calls = <<>>
        /\ a \notin {"create", "import"} =>
              api.res.status = 400 /\ api.res.error = "Invalid action" /\ api.calls = <<>>
        /\ threw => api.res.status = 500 /\ ~api.res.success
        /\ api.res.success <=>
              /\ a \in {"create", "import"}
              /\ ~(a = "import" /\ m \in {"missing", ""})
              /\ api.sdk = "ok"
        /\ api.res.success =>
              /\ api.res.status = 200
              /\ api.res.wallet = "w1"
              /\ api.res.addresses = <<"a1">>
              /\ api.calls = <<IF a = "create" THEN "Wallet.create" ELSE "Wallet.import", "listAddresses">>

WalletPostDispatchesWitness ==
    /\ api.last = [route |-> "POST /api/wallet", action |-> "import", mnemonicPhrase |-> "",
                   walletId |-> "missing"]
    /\ api.res.status = 400
    /\ api.calls = <<>>

\* C14: GET /api/portfolio answers with one asset for each currency of the
\* wallet whose balance is greater than 0 and with no other asset; without a
\* walletId it answers 400 and calls no SDK function; when the SDK throws it
\* answers 500.
PortfolioListsNonZeroBalances ==
    api.last.route = "GET /api/portfolio" =>
        /\ api.last.walletId \in {"missing", ""} => api.res.status = 400 /\ api.calls = <<>>
        /\ api.last.walletId \notin {"missing", ""} /\ api.sdk # "ok" =>
              api.res.status = 500 /\ api.res.assets = <<>> /\ api.calls[1] = "Wallet.fetch"
        /\ api.res.status = 200 =>
              LET positive == SelectSeq(api.balances, LAMBDA e : e.balance > 0) IN
              /\ Len(api.res.assets) = Len(positive)
              /\ \A i \in 1..Len(positive) :
                    /\ api.res.assets[i].coin = positive[i].currency
                    /\ api.res.assets[i].amount = positive[i].balance

PortfolioListsNonZeroBalancesWitness ==
    /\ api.last.route = "GET /api/portfolio"
    /\ api.res.status = 200
    /\ api.balances = <<[currency |-> "eth", balance |-> 0], [currency |-> "usdc", balance |-> 150]>>
    /\ Len(api.res.assets) = 1

BothOrNeither(ls) == (ls.walletId = "absent") <=> (ls.addresses.json = "absent")

\* C15: walletInfo is set only by a checkWallet that found both keys in
\* localStorage, parsed the addresses to an array and got an ok answer of the
\* verify route; every other end of checkWallet removes both keys and goes
\* to '/'; and every change the pages make to localStorage leaves the two
\* keys both present or both absent.
WalletShownOnlyWhenVerifiedStep ==
    /\ client.pc = "mount" /\ client'.pc = "verifying" =>
          /\ localStorage.walletId # "absent"
          /\ localStorage.addresses.json # "absent"
          /\ localStorage.addresses.json = "array"
          /\ client'.read = [walletId |-> localStorage.walletId,
                             addresses |-> localStorage.addresses.value]
    /\ client.walletInfo = NoWallet /\ client'.walletInfo # NoWallet =>
          /\ client.pc = "verifying"
          /\ api.last.route = "GET /api/wallet/verify"
          /\ api.last.walletId = client.read.walletId
          /\ api.res.status = 200
          /\ client'.walletInfo = client.read
    /\ client.pc \in {"mount", "verifying"} /\ client' # client /\ client'.pc \notin {"verifying", "portfolio"} =>
          /\ localStorage'.walletId = "absent"
          /\ localStorage'.addresses.json = "absent"
          /\ client'.pc = "homeMount"
          /\ client'.walletInfo = NoWallet
    /\ client' # client /\ localStorage' # localStorage => BothOrNeither(localStorage')

WalletShownOnlyWhenVerified == [][WalletShownOnlyWhenVerifiedStep]_vars

WalletShownOnlyWhenVerifiedWitness ==
    /\ client.pc = "portfolio"
    /\ client.walletInfo = [walletId |-> "w1", addresses |-> <<"a1">>]
    /\ localStorage.walletId = "w1"
    /\ used.edits = 1

\* ------------------------------------------- claims: fetchWithRetry, cache
CallRecords == {ret} \cup {calls[c] : c \in CallIds}

\* the timer of a retry is set to the delay of that retry, and the retry
\* leaves only when the timer is due
RetryLeavesAfterDelay ==
    \A c \in CallIds :
        /\ calls[c].pc = "fetch" /\ calls'[c].pc = "backoff" =>
              calls'[c].wake = now + <<1000, 2000, 4000>>[calls'[c].retryCount]
        /\ calls[c].pc = "backoff" /\ calls'[c].pc # "backoff" =>
              /\ calls'[c].pc = "fetch"
              /\ now >= calls[c].wake
              /\ calls'[c].sent = calls[c].sent + 1

RetryBounds ==
    \A r \in CallRecords :
        r.tool \in {"news", "social"} =>
            /\ r.sent <= 4
            /\ r.retryCount <= 3
            /\ r.delays = SubSeq(<<1000, 2000, 4000>>, 1, r.retryCount)
            /\ \A i \in 2..Len(r.delays) : r.delays[i] = 2 * r.delays[i - 1]
            /\ r.pc = "backoff" => r.sent = r.retryCount
            /\ r.pc = "fetch" => r.sent = r.retryCount + 1
            /\ r.pc = "done" /\ r.result # "hit" => r.sent = r.retryCount + 1

\* C16: a call of fetchWithRetry (news and social tools) makes at most 4
\* fetch attempts, and the delays before its retries are 1000, 2000 and
\* 4000 ms, each the double of the one before; a retry leaves no sooner than
\* its delay after the attempt before it failed.
RetryAttemptsAreBounded == []RetryBounds /\ [][RetryLeavesAfterDelay]_vars

\* the fourth attempt of a call succeeded
RetryAttemptsAreBoundedWitness ==
    /\ ret.tool \in {"news", "social"}
    /\ ret.result = "ok"
    /\ ret.sent = 4
    /\ ret.delays = <<1000, 2000, 4000>>

\* C17: fetchWithRetry hands the first response with ok = true to its caller
\* and makes no attempt after it; a response that is not ok is handed over
\* only as the answer of the 4th attempt, and a network error is thrown only
\* when the 4th attempt threw it.
RetryOutcome ==
    /\ \A c \in CallIds :
          calls[c].tool \in {"news", "social"} =>
              \A i \in 1..Len(calls[c].attempts) : calls[c].attempts[i] \in {"notok", "throw"}
    /\ ret.tool \in {"news", "social"} /\ ret.result # "hit" /\ ret.pc = "done" =>
          LET n == Len(ret.attempts)
              last == ret.attempts[n]
          IN
          /\ n = ret.sent /\ n >= 1
          /\ \A i \in 1..(n - 1) : ret.attempts[i] \in {"notok", "throw"}
          /\ ret.outcome = last
          /\ last \in {"notok", "throw"} => n = 4 /\ ret.result = "fail"

\* three attempts failed and the fourth threw
RetryOutcomeWitness ==
    /\ ret.tool \in {"news", "social"}
    /\ Len(ret.attempts) = 4
    /\ ret.attempts[1] = "notok"
    /\ ret.attempts[4] = "throw"
    /\ ret.outcome = "throw"

\* C18: a step in which an attempt fails (response not ok, body unusable,
\* fetch throws) leaves every cache as it was; the caches change only when a
\* call returns the payload of an ok response, and hold nothing but such
\* payloads.
FailureLeavesCacheStep ==
    /\ \A c \in CallIds :
          /\ calls[c].pc = "fetch" /\ calls'[c].pc = "backoff" => cache' = cache
          /\ calls[c].pc = "fetch" /\ calls'[c].pc = "idle" /\ ret'.result = "fail" => cache' = cache
    /\ cache' # cache => ret'.result = "ok" /\ ret'.outcome = "ok" /\ ret'.data \in {"p1", "p2"}
    /\ \A t \in {"news", "social", "market", "price", "technical"} :
          \A k \in DOMAIN cache'[t] : cache'[t][k].data \in {"p1", "p2"}

FailureLeavesCache == [][FailureLeavesCacheStep]_vars

\* a call failed on a key whose stale entry is still in the cache
FailureLeavesCacheWitness ==
    /\ ret.result = "fail"
    /\ ret.outcome \in {"notok", "throw", "badbody"}
    /\ ret.key \in DOMAIN cache[ret.tool]
    /\ cache[ret.tool][ret.key].timestamp = 1000
    /\ now >= 301000

\* ------------------------------------------------------ claims: _call
\* the body is null, or one of the first three articles has a url that
\* new URL rejects
NewsBreaks(data) ==
    \/ data.isNull
    \/ \E i \in 1..Len(data.results) : i <= 3 /\ ~data.results[i].validUrl

\* C19: the _call of the news tool and of the social tool always resolves;
\* the news tool answers an internal exception with all counts 0 and
\* overallSentiment 'neutral', the social tool answers a failed fetch with
\* success: false and an error text; the _call of the price, technical and
\* market tools rejects with a wrapped Error when the fetch fails.
CallNeverRejects ==
    tcall.pc = "done" =>
        LET r == tcall.result
            failed == tcall.outcome \in {"notok", "throw"}
            broken == \/ tcall.query = "undefined"
                      \/ NewsBreaks(tcall.bearish)
                      \/ NewsBreaks(tcall.bullish)
                      \/ NewsBreaks(tcall.trending)
            prefix == IF tcall.tool = "price" THEN "Failed to fetch price data: "
                      ELSE IF tcall.tool = "technical" THEN "Failed to fetch technical indicators: "
                      ELSE "Failed to analyze market data: "
        IN
        /\ tcall.tool \in {"news", "social"} => r.kind = "resolved"
        /\ tcall.tool = "news" /\ broken =>
              /\ r.counts = [bullish |-> 0, bearish |-> 0, trending |-> 0]
              /\ r.overallSentiment = "neutral"
        /\ tcall.tool = "news" /\ ~broken => r.overallSentiment \in {"bullish", "bearish"}
        /\ tcall.tool = "social" /\ failed =>
              /\ ~r.success
              /\ r.error \in {"Failed to fetch Twitter data", "Error processing social data"}
        /\ tcall.tool = "social" /\ ~failed => r.success
        /\ tcall.tool \in {"price", "technical", "market"} /\ failed =>
              /\ r.kind = "rejected"
              /\ r.error \in {prefix \o m : m \in {"API Error", "fetch failed", "TypeError"}}
        /\ tcall.tool \in {"price", "technical", "market"} /\ ~failed => r.kind = "resolved"

\* the news tool met an article with an invalid url and answered 'neutral'
CallNeverRejectsWitness ==
    /\ tcall.pc = "done"
    /\ tcall.tool = "news"
    /\ tcall.query = "btc"
    /\ ~tcall.bearish.isNull /\ ~tcall.bullish.isNull
    /\ NewsBreaks(tcall.bullish)
    /\ tcall.result.kind = "resolved"
    /\ tcall.result.overallSentiment = "neutral"

Logged(e) == \E i \in 1..Len(tcall.log) : tcall.log[i] = e
LoggedAt(e) == CHOOSE i \in 1..Len(tcall.log) : tcall.log[i] = e
FirstThree(n) == IF n < 3 THEN n ELSE 3

\* C20: the news _call starts the 'rising' fetch only after the bearish and
\* the bullish fetch have both completed, and it starts it exactly when the
\* two formatted lists together hold fewer than 5 articles.
TrendingFetchedWhenFew ==
    tcall.tool = "news" =>
        /\ Logged("start rising") =>
              /\ Logged("done bearish") /\ LoggedAt("done bearish") < LoggedAt("start rising")
              /\ Logged("done bullish") /\ LoggedAt("done bullish") < LoggedAt("start rising")
        /\ (/\ tcall.pc \in {"trending", "done"}
            /\ tcall.query # "undefined"
            /\ ~NewsBreaks(tcall.bearish)
            /\ ~NewsBreaks(tcall.bullish)) =>
              (Logged("start rising") <=>
                  FirstThree(Len(tcall.bearish.results)) + FirstThree(Len(tcall.bullish.results)) < 5)

\* bullish completed before bearish, the lists held 2 + 1 articles, and the
\* trending list was fetched and added
TrendingFetchedWhenFewWitness ==
    /\ tcall.pc = "done"
    /\ tcall.log = <<"start bearish", "start bullish", "done bullish", "done bearish",
                     "start rising", "done rising">>
    /\ tcall.result.counts = [bullish |-> 1, bearish |-> 2, trending |-> 3]

\* ------------------------------------------- claims: the news report
NewsReported == tcall.pc = "done" /\ tcall.tool = "news" /\ tcall.result.success
Titles(list) == {list[i].title : i \in 1..Len(list)}
ScoreBelow(x, y) == ~x.nan /\ ~y.nan /\ x.impact_score < y.impact_score

\* C21: every list of the news report holds the first 3 articles of its
\* upstream list (all of them when there are fewer), no article of a list
\* has a lower impact_score than one after it, the report holds at most 9
\* articles, and bearish and bullish together at most 6.
FormattedArticlesAreOrdered ==
    NewsReported =>
        LET a == tcall.result.articles IN
        /\ \A s \in {"bearish", "bullish", "trending"} :
              /\ Len(a[s]) = FirstThree(Len(tcall[s].results))
              /\ Titles(a[s]) = {tcall[s].results[i].title : i \in 1..Len(a[s])}
              /\ \A i, j \in 1..Len(a[s]) : i < j => ~ScoreBelow(a[s][i], a[s][j])
        /\ Len(a.bearish) + Len(a.bullish) + Len(a.trending) <= 9
        /\ Len(a.bearish) + Len(a.bullish) <= 6

NewsThrew ==
    \/ tcall.query = "undefined"
    \/ NewsBreaks(tcall.bearish) \/ NewsBreaks(tcall.bullish) \/ NewsBreaks(tcall.trending)

\* C22: when the news _call ends without an exception, the counts are those
\* of the formatted lists and overallSentiment is 'bullish' exactly when the
\* bullish count is strictly greater than the bearish count, and 'bearish'
\* otherwise (ties and no articles included); 'neutral' is reported only
\* when an exception was caught.
SentimentFollowsCounts ==
    tcall.pc = "done" /\ tcall.tool = "news" =>
        LET r == tcall.result IN
        /\ ~NewsThrew =>
              /\ r.counts.bullish = FirstThree(Len(tcall.bullish.results))
              /\ r.counts.bearish = FirstThree(Len(tcall.bearish.results))
              /\ r.overallSentiment = "bullish" <=> r.counts.bullish > r.counts.bearish
              /\ r.overallSentiment = "bearish" <=> r.counts.bullish <= r.counts.bearish
        /\ r.overallSentiment = "neutral" => NewsThrew

\* a report without any article came out 'bearish'
SentimentFollowsCountsWitness ==
    /\ tcall.pc = "done" /\ tcall.tool = "news"
    /\ ~NewsThrew
    /\ tcall.result.counts = [bullish |-> 0, bearish |-> 0, trending |-> 0]
    /\ tcall.log = <<"start bearish", "start bullish", "done bearish", "done bullish",
                     "start rising", "done rising">>
    /\ tcall.result.overallSentiment = "bearish"

\* ------------------------------------------- claims: the analysis steps
Loading == {i \in 0..3 : portfolio.steps[i] = "loading"}
Rendered == portfolio.pc \in {"reading", "done"} /\ portfolio.queue = <<>>
ExpectedSteps(n) ==
    [i \in 0..3 |-> IF i < n THEN "complete" ELSE IF i = n THEN "loading" ELSE "pending"]

StepsInOrder ==
    /\ portfolio.pc = "fetch" => \A i \in 0..3 : portfolio.steps[i] = "pending"
    /\ Rendered /\ ~portfolio.final /\ portfolio.toolsEvents = 0 =>
          \A i \in 0..3 : portfolio.steps[i] = "pending"
    /\ Rendered /\ ~portfolio.final /\ portfolio.toolsEvents > 0 =>
          portfolio.steps = ExpectedSteps(portfolio.toolsEvents)
    /\ Rendered /\ portfolio.final => \A i \in 0..3 : portfolio.steps[i] = "complete"
    /\ Cardinality(Loading) <= 1

CompleteStays ==
    portfolio'.clicks = portfolio.clicks =>
        \A i \in 0..3 : portfolio.steps[i] = "complete" => portfolio'.steps[i] = "complete"

\* C23: a click leaves all 4 steps 'pending'; once the k-th tools event of
\* the stream (k from 0) is rendered, steps 0..k are 'complete', step k+1 is
\* 'loading' and the later steps 'pending'; once the final agent message is
\* rendered all steps are 'complete'; at most one step is 'loading' at any
\* time, and within one run no step leaves 'complete'.
StepsProgress == []StepsInOrder /\ [][CompleteStays]_vars

====
